---- MODULE Spec2Model ----
(***************************************************************************)
(* Model of the stock-counter request handlers and page.                   *)
(*                                                                         *)
(*   SpecWriter  : the update-inventory handler (src/unnamed/part_000)     *)
(*   SpecAuth    : the authorization start and callback handlers           *)
(*                 (src/pages/api/auth/index.ts, lines 1-126)              *)
(*   SpecReader  : the products handler (index.ts, lines 128-242)          *)
(*   SpecSession : one browser going through the handshake and then        *)
(*                 reading and writing with the cookies it holds           *)
(*   SpecUI      : the stock counter page (index.ts, lines 586-915)        *)
(*                                                                         *)
(* A handler is split into one action per await point of its code: the     *)
(* part of the handler that runs between two awaits is one atomic step.    *)
(***************************************************************************)
EXTENDS Integers, Sequences, FiniteSets, TLC

VARIABLES
    \* ---- process environment (read once at module load) ----
    envAccessToken,   \* process.env.SHOPIFY_ACCESS_TOKEN ("" when unset)
    envApiKey,        \* process.env.SHOPIFY_API_KEY      ("" when unset)
    envApiSecret,     \* process.env.SHOPIFY_API_SECRET   ("" when unset)
    \* ---- update-inventory handler ----
    w_pc,             \* "idle" | "fetch" | "json" | "delay" | "done"
    w_req,            \* the request being handled: method, cookies, body
    w_updates,        \* the accepted update list (the `updates` local)
    w_i,              \* position of the for-of loop in w_updates (1-based)
    w_results,        \* the `results` local: success, failed, errors
    w_calls,          \* mutation calls received by the external endpoint
    w_callIdx,        \* for each call, the index of the update it was for
    w_outstanding,    \* calls issued and not yet settled
    w_outcomes,       \* how each settled call ended (history)
    w_elapsed,        \* milliseconds slept in setTimeout during this batch
    w_resp,           \* the response sent for w_req
    \* ---- authorization handlers ----
    jar,              \* the browser's cookies for the app origin
    s_resp,           \* the response of the last authorization-start request
    a_pc,             \* callback handler: "idle" | "exchange" | "done"
    cb,               \* the callback request being handled: query, cookies
    cb_exchange,      \* token-endpoint calls made for cb
    cb_g2,            \* whether the HMAC guard was evaluated for cb
    cb_token,         \* how the token-endpoint call for cb ended
    cb_resp,          \* the response sent for cb
    usedNonce,        \* a nonce that passed the state check of a completed
                      \* callback and has not been issued again since (history)
    \* ---- products (read inventory) handler ----
    r_pc,             \* "idle" | "fetch" | "done"
    r_req,            \* the request being handled: method, locationId, cookies
    r_calls,          \* queries sent to the external endpoint for r_req
    r_upstream,       \* how the external query for r_req ended
    r_resp,           \* the response sent for r_req
    \* ---- stock counter page (Home) ----
    selectedLocation, \* useState: key of LOCATIONS
    products,         \* useState: the records last fetched (the baseline)
    stockValues,      \* useState: product id -> text of its input
    loading,          \* useState
    saving,           \* useState
    searchQuery,      \* useState
    needsAuth,        \* useState
    ui_fetches,       \* calls of fetchProducts awaiting their response
    ui_save,          \* handleSave: "idle" | "posting" | "refetching"
    ui_batch,         \* the updates of the last POST to the Writer (history)
    ui_productsLoc,   \* the location id `products` was fetched for (history)
    ui_event,         \* the last event the page handled: "rejected" (a
                      \* handleStockChange call that returned at line 713),
                      \* "discarded" / "discard" (handleDiscard with / without
                      \* changes pending) or "other" (history)
    ui_saveLog,       \* how the last handleSave went (history)
    ui_dirtied,       \* ids whose input differed from the baseline at some
                      \* time since the baseline was loaded (history)
    ui_midSave        \* ids whose input took another text while the last
                      \* handleSave was in flight (history)

envVars    == <<envAccessToken, envApiKey, envApiSecret>>
writerVars == <<w_pc, w_req, w_updates, w_i, w_results, w_calls, w_callIdx,
                w_outstanding, w_outcomes, w_elapsed, w_resp>>
authVars   == <<jar, s_resp, a_pc, cb, cb_exchange, cb_g2, cb_token, cb_resp,
                usedNonce>>
readerVars == <<r_pc, r_req, r_calls, r_upstream, r_resp>>
uiVars     == <<selectedLocation, products, stockValues, loading, saving,
                searchQuery, needsAuth, ui_fetches, ui_save, ui_batch,
                ui_productsLoc, ui_event, ui_saveLog, ui_dirtied,
                ui_midSave>>
vars       == <<envVars, writerVars, authVars, readerVars, uiVars>>

\* ------------------------------------------------------------------------
\* Bounds of the model
\* ------------------------------------------------------------------------
MaxUpdates == 2

\* Calls of fetchProducts that may await their response at the same time.
MaxInFlight == 2

\* ------------------------------------------------------------------------
\* Program constants
\* ------------------------------------------------------------------------
DELAY_MS == 100

\* products(first: 250) and variants(first: 100) of the products query
PRODUCTS_FIRST == 250
VARIANTS_FIRST == 100

\* An absent string-valued thing (undefined in the source).
Absent == "<undefined>"

\* JavaScript truthiness of a string-or-undefined value.
Truthy(v) == v /= Absent /\ v /= ""

\* a || b on string-or-undefined values.
OrElse(a, b) == IF Truthy(a) THEN a ELSE b

\* ------------------------------------------------------------------------
\* Cookies
\* ------------------------------------------------------------------------
CookieNames == <<"shopify_access_token", "shopify_shop", "shopify_nonce">>

\* The Cookie request header a browser sends for a jar: the name=value
\* pairs of the cookies it holds, joined by "; ".
CookieHeader(j) ==
    LET pairs == [k \in 1..Len(CookieNames) |->
                     <<CookieNames[k], j[CookieNames[k]]>>]
    IN  SelectSeq(pairs, LAMBDA p : p[2] /= Absent)

\* cookies.split(';').find(c => c.trim().startsWith(name + '='))?.split('=')[1]
CookieValue(header, name) ==
    LET hits == SelectSeq(header, LAMBDA p : p[1] = name)
    IN  IF hits = <<>> THEN Absent ELSE hits[1][2]

\* getAuthFromCookies
getAuthFromCookies(header) ==
    [accessToken |-> OrElse(CookieValue(header, "shopify_access_token"),
                            IF Truthy(envAccessToken) THEN envAccessToken
                                                      ELSE Absent),
     shop        |-> OrElse(CookieValue(header, "shopify_shop"), "DEFAULT_SHOP")]

NoCookies == [shopify_access_token |-> Absent, shopify_shop |-> Absent,
              shopify_nonce |-> Absent]

\* ------------------------------------------------------------------------
\* Update-inventory handler
\* ------------------------------------------------------------------------
Items     == {"A", "B"}
Locations == {"1"}
Quantities == {5}

InventoryUpdate ==
    [inventoryItemId : Items, locationId : Locations, quantity : Quantities]

RECURSIVE SeqsUpTo(_, _)
SeqsUpTo(S, n) ==
    IF n = 0 THEN {<<>>}
    ELSE LET shorter == SeqsUpTo(S, n - 1)
         IN  shorter \cup {Append(s, x) : s \in {t \in shorter : Len(t) = n - 1},
                                          x \in S}

\* Request bodies.  kind "null": req.body is null or undefined; "object":
\* an object without an `updates` key; "scalar": `updates` is a truthy
\* non-array value; "list": `updates` is an array.
Bodies ==
    {[kind |-> k, updates |-> <<>>] : k \in {"null", "object", "scalar"}}
    \cup {[kind |-> "list", updates |-> u] :
              u \in SeqsUpTo(InventoryUpdate, MaxUpdates)}

WriterCookieJars ==
    {[NoCookies EXCEPT !.shopify_access_token = t] : t \in {Absent, "tok1"}}

WriterRequests ==
    [method : {"POST", "GET"}, cookies : WriterCookieJars, body : Bodies]

\* What the external GraphQL endpoint can answer to one mutation call.
\*   kind "throw"  : fetch rejects (transport failure)
\*   kind "http"   : fetch resolves; ok / status as given
\*   parses        : whether response.json() resolves
\*   hasErrors/errors         : data.errors (key present / its messages)
\*   hasUserErrors/userErrors : data.data.inventorySetQuantities.userErrors
ErrorLists     == {<<>>, <<"">>, <<"e1", "e2">>}
UserErrorLists == {<<>>, <<"u1", "u2">>}

NoData == [hasErrors |-> FALSE, errors |-> <<>>,
           hasUserErrors |-> FALSE, userErrors |-> <<>>]

Payloads ==
    {[hasErrors |-> he, errors |-> e, hasUserErrors |-> hu, userErrors |-> u] :
        he \in BOOLEAN, e \in ErrorLists, hu \in BOOLEAN, u \in UserErrorLists}

WellFormedPayloads ==
    {d \in Payloads : (~d.hasErrors => d.errors = <<>>)
                      /\ (~d.hasUserErrors => d.userErrors = <<>>)}

Outcomes ==
    {[kind |-> "throw", ok |-> FALSE, status |-> 0, parses |-> FALSE,
      data |-> NoData]}
    \cup {[kind |-> "http", ok |-> FALSE, status |-> s, parses |-> FALSE,
           data |-> NoData] : s \in {429, 500}}
    \cup {[kind |-> "http", ok |-> TRUE, status |-> 200, parses |-> FALSE,
           data |-> NoData]}
    \cup {[kind |-> "http", ok |-> TRUE, status |-> 200, parses |-> TRUE,
           data |-> d] : d \in WellFormedPayloads}

EmptyResults == [success |-> 0, failed |-> 0, errors |-> <<>>]

NoResponse == [status |-> 0, kind |-> "none", error |-> "",
               results |-> EmptyResults]

ErrorResponse(status, msg) ==
    [status |-> status, kind |-> "error", error |-> msg,
     results |-> EmptyResults]

ResultsResponse(r) ==
    [status |-> 200, kind |-> "results", error |-> "", results |-> r]

\* An exception that leaves the handler: the framework, not the handler,
\* answers the request.
Uncaught == [status |-> 500, kind |-> "uncaught", error |-> "",
             results |-> EmptyResults]

\* The check without its `updates.length === 0` disjunct.
NoUpdatesProvidedNoLength(body) ==
    \/ body.kind = "object"
    \/ body.kind = "scalar"

\* !updates || !Array.isArray(updates) || updates.length === 0
NoUpdatesProvided(body) ==
    \/ body.kind = "object"
    \/ body.kind = "scalar"
    \/ body.kind = "list" /\ Len(body.updates) = 0

\* The list walked from its end.
UpdateAtReversed(updates, k) == updates[Len(updates) - k + 1]

\* The update the k-th iteration of `for (const update of updates)` takes.
UpdateAt(updates, k) == updates[k]

\* variables.input.quantities[0] of the mutation sent for an update
MutationFor(update) ==
    [inventoryItemId |-> update.inventoryItemId,
     locationId      |-> <<"gid://shopify/Location/", update.locationId>>,
     quantity        |-> update.quantity]

\* data.errors || data.data?.inventorySetQuantities?.userErrors?.length > 0
HasErrors(data) ==
    data.hasErrors \/ (data.hasUserErrors /\ Len(data.userErrors) > 0)

\* The message taken from the end of each list instead of its start.
ErrorMsgLast(data) ==
    LET top  == IF data.hasErrors /\ Len(data.errors) > 0
                THEN data.errors[Len(data.errors)] ELSE Absent
        user == IF data.hasUserErrors /\ Len(data.userErrors) > 0
                THEN data.userErrors[Len(data.userErrors)] ELSE Absent
    IN  OrElse(top, OrElse(user, "Unknown error"))

\* data.errors?.[0]?.message || userErrors?.[0]?.message || 'Unknown error'
ErrorMsg(data) ==
    LET top  == IF data.hasErrors /\ Len(data.errors) > 0
                THEN data.errors[1] ELSE Absent
        user == IF data.hasUserErrors /\ Len(data.userErrors) > 0
                THEN data.userErrors[1] ELSE Absent
    IN  OrElse(top, OrElse(user, "Unknown error"))

\* `API error for ${update.inventoryItemId}: ${response.status}`
ApiErrorText(update, status) ==
    [prefix |-> "API error for ", item |-> update.inventoryItemId,
     detail |-> ToString(status)]

\* `Failed ${update.inventoryItemId}: ${errorMsg}`
FailedText(update, msg) ==
    [prefix |-> "Failed ", item |-> update.inventoryItemId, detail |-> msg]

\* The top of `for (const update of updates)` for iteration k (line 54):
\* either the fetch for the k-th update is issued (lines 55-91) or the loop
\* is over and the results are returned (line 115).  calls, idx and out are
\* the calls made, their update indices and the number of unsettled calls
\* when the loop top is reached.
WriterLoopTop(updates, k, results, calls, idx, out) ==
    /\ w_i' = k
    /\ w_results' = results
    /\ IF k <= Len(updates)
       THEN /\ w_pc' = "fetch"
            /\ w_calls' = Append(calls, MutationFor(UpdateAt(updates, k)))
            /\ w_callIdx' = Append(idx, k)
            /\ w_outstanding' = out + 1
            /\ w_resp' = NoResponse
       ELSE /\ w_pc' = "done"
            /\ w_calls' = calls
            /\ w_callIdx' = idx
            /\ w_outstanding' = out
            /\ w_resp' = ResultsResponse(results)

\* The response of the catch block (lines 116-121).
WriterCatch(msg) ==
    /\ w_pc' = "done"
    /\ w_resp' = ErrorResponse(500, msg)

\* The handler up to its first await (lines 27-91).
WriterReceive(req) ==
    /\ w_pc \in {"idle", "done"}
    /\ w_req' = req
    /\ LET auth == getAuthFromCookies(CookieHeader(req.cookies))
           reject(r) ==
               /\ w_pc' = "done"
               /\ w_resp' = r
               /\ w_updates' = <<>>
               /\ w_i' = 1
               /\ w_results' = EmptyResults
               /\ w_calls' = <<>>
               /\ w_callIdx' = <<>>
               /\ w_outstanding' = 0
       IN  IF req.method /= "POST"
           THEN reject(ErrorResponse(405, "Method not allowed"))
           ELSE IF ~Truthy(auth.accessToken)
           THEN reject(ErrorResponse(401, "Not authenticated"))
           ELSE IF req.body.kind = "null"
           THEN reject(Uncaught)
           ELSE IF NoUpdatesProvided(req.body)
           THEN reject(ErrorResponse(400, "No updates provided"))
           ELSE /\ w_updates' = req.body.updates
                /\ WriterLoopTop(req.body.updates, 1, EmptyResults,
                                 <<>>, <<>>, 0)
    /\ w_outcomes' = <<>>
    /\ w_elapsed' = 0
    /\ UNCHANGED <<envVars, authVars, readerVars, uiVars>>

\* `await fetch(...)` settles (lines 84-97; a rejection goes to the catch
\* block, lines 116-121).  A non-OK response ends the iteration with
\* `continue`, which goes straight to the top of the loop.
WriterFetchSettles(o) ==
    /\ w_pc = "fetch"
    /\ w_outcomes' = Append(w_outcomes, o)
    /\ LET update == UpdateAt(w_updates, w_i)
       IN  IF o.kind = "throw"
           THEN /\ WriterCatch("fetch failed")
                /\ w_outstanding' = w_outstanding - 1
                /\ UNCHANGED <<w_i, w_results, w_calls, w_callIdx>>
           ELSE IF ~o.ok
           THEN WriterLoopTop(w_updates, w_i + 1,
                    [w_results EXCEPT
                        !.failed = @ + 1,
                        !.errors = Append(@, ApiErrorText(update, o.status))],
                    w_calls, w_callIdx, w_outstanding - 1)
           ELSE /\ w_pc' = "json"
                /\ w_outstanding' = w_outstanding - 1
                /\ UNCHANGED <<w_i, w_results, w_calls, w_callIdx, w_resp>>
    /\ UNCHANGED <<w_req, w_updates, w_elapsed>>
    /\ UNCHANGED <<envVars, authVars, readerVars, uiVars>>

\* `await response.json()` settles (lines 99-112; a rejection goes to the
\* catch block).  The step ends at the setTimeout of line 112.
WriterJsonSettles ==
    /\ w_pc = "json"
    /\ LET o      == w_outcomes[Len(w_outcomes)]
           update == UpdateAt(w_updates, w_i)
       IN  IF ~o.parses
           THEN /\ WriterCatch("Unexpected token")
                /\ UNCHANGED w_results
           ELSE /\ w_pc' = "delay"
                /\ w_resp' = w_resp
                /\ w_results' =
                      IF HasErrors(o.data)
                      THEN [w_results EXCEPT
                               !.failed = @ + 1,
                               !.errors = Append(@,
                                   FailedText(update, ErrorMsg(o.data)))]
                      ELSE [w_results EXCEPT !.success = @ + 1]
    /\ UNCHANGED <<w_req, w_updates, w_i, w_calls, w_callIdx, w_outstanding,
                   w_outcomes, w_elapsed>>
    /\ UNCHANGED <<envVars, authVars, readerVars, uiVars>>

\* The setTimeout of line 112 fires; the loop goes to its next iteration.
WriterDelayElapses ==
    /\ w_pc = "delay"
    /\ w_elapsed' = w_elapsed + DELAY_MS
    /\ WriterLoopTop(w_updates, w_i + 1, w_results, w_calls, w_callIdx,
                     w_outstanding)
    /\ UNCHANGED <<w_req, w_updates, w_outcomes>>
    /\ UNCHANGED <<envVars, authVars, readerVars, uiVars>>

\* ------------------------------------------------------------------------
\* Authorization start and callback handlers
\* ------------------------------------------------------------------------

\* crypto.randomBytes(16).toString('hex'): the values the model draws from.
Nonces == {"n1", "n2"}

\* Query parameters of a callback, their names in lexicographic order
\* (the order Array.prototype.sort gives them).
LexOrder == <<"code", "hmac", "shop", "state", "timestamp">>

KeyRank(k) == CHOOSE r \in 1..Len(LexOrder) : LexOrder[r] = k

\* A hex digest is modelled as the pair <<key, message>> it was computed
\* from (no collisions); the empty string is the empty tuple.
EmptyString == <<>>

HmacSha256(key, message) == <<key, message>>

\* A callback query: the value of each parameter (Absent when the URL does
\* not carry it), `hmac` the supplied signature, `hasHmac` whether the URL
\* carries an hmac parameter, `order` the order of the parameters in the URL.
QueryParam(q, k) ==
    CASE k = "code"      -> q.code
      [] k = "shop"      -> q.shop
      [] k = "state"     -> q.state
      [] k = "timestamp" -> q.timestamp

\* Object.keys(queryParams) after `delete queryParams.hmac`
QueryKeys(q) ==
    SelectSeq(q.order, LAMBDA k : k /= "hmac" /\ QueryParam(q, k) /= Absent)

\* Array.prototype.sort on parameter names
RECURSIVE SortKeys(_)
SortKeys(keys) ==
    IF keys = <<>> THEN <<>>
    ELSE LET least == CHOOSE i \in 1..Len(keys) :
                          \A j \in 1..Len(keys) :
                              KeyRank(keys[i]) <= KeyRank(keys[j])
             rest  == [j \in 1..(Len(keys) - 1) |->
                          IF j < least THEN keys[j] ELSE keys[j + 1]]
         IN  <<keys[least]>> \o SortKeys(rest)

\* Object.keys(queryParams).sort().map(key => `${key}=${value}`).join('&')
QueryMessage(q) ==
    LET sorted == SortKeys(QueryKeys(q))
    IN  [i \in 1..Len(sorted) |-> <<sorted[i], QueryParam(q, sorted[i])>>]

\* The digest keyed with the API key instead of the API secret.
GeneratedHmacWithApiKey(q) == HmacSha256(envApiKey, QueryMessage(q))

\* crypto.createHmac('sha256', API_SECRET).update(message).digest('hex')
GeneratedHmac(q) == HmacSha256(envApiSecret, QueryMessage(q))

\* `if (hmac)`
HmacProvided(q) == q.hasHmac /\ q.hmac /= EmptyString

\* The comparison skipped when the request carries no nonce cookie.
NonceMatchesOrNoCookie(state, storedNonce) ==
    storedNonce = Absent \/ state = storedNonce

\* The negation of `state !== storedNonce`
NonceMatches(state, storedNonce) == state = storedNonce

\* The status of the token response not looked at.
TokenResponseOkUnchecked(t) == TRUE

\* The negation of `!tokenResponse.ok`
TokenResponseOk(t) == t.ok

AuthResponse(status, err, location, cookies) ==
    [status |-> status, error |-> err, location |-> location,
     cookies |-> cookies]

NoAuthResponse == AuthResponse(0, "", "", <<>>)

\* The browser applies the Set-Cookie headers of a response: a cookie with
\* Max-Age=0 is removed, any other is stored.
RECURSIVE ApplySetCookie(_, _)
ApplySetCookie(j, cookies) ==
    IF cookies = <<>> THEN j
    ELSE LET c == cookies[1]
             v == IF c.maxAge = 0 THEN Absent ELSE c.value
         IN  ApplySetCookie([j EXCEPT ![c.name] = v], Tail(cookies))

SetCookie(name, value, maxAge) ==
    [name |-> name, value |-> value, maxAge |-> maxAge]

NoMaxAge == -1
ONE_YEAR == 31536000

\* Authorization start (lines 11-36).  A nonce drawn while a callback is
\* waiting for the token endpoint differs from that callback's state (the
\* nonce is 16 fresh random bytes).
AuthStart(nonce) ==
    /\ a_pc = "exchange" => nonce /= cb.query.state
    /\ IF ~Truthy(envApiKey)
       THEN /\ s_resp' = AuthResponse(500, "API key not configured", "", <<>>)
            /\ UNCHANGED <<jar, usedNonce>>
       ELSE LET cookies == <<SetCookie("shopify_nonce", nonce, NoMaxAge)>>
            IN  /\ s_resp' = AuthResponse(302, "", <<"authorize", nonce>>,
                                          cookies)
                /\ jar' = ApplySetCookie(jar, cookies)
                /\ usedNonce' = IF usedNonce = nonce THEN Absent
                                                     ELSE usedNonce
    /\ UNCHANGED <<a_pc, cb, cb_exchange, cb_g2, cb_token, cb_resp>>
    /\ UNCHANGED <<envVars, writerVars, readerVars, uiVars>>

\* What the token endpoint can answer.
\*   kind "throw" : fetch rejects;  otherwise ok / status as given,
\*   parses : whether tokenResponse.json() resolves,
\*   access_token : tokenData.access_token (Absent when the key is missing)
NoToken == [kind |-> "none", ok |-> FALSE, status |-> 0, parses |-> FALSE,
            access_token |-> Absent]

TokenOutcomes ==
    {[kind |-> "throw", ok |-> FALSE, status |-> 0, parses |-> FALSE,
      access_token |-> Absent]}
    \cup {[kind |-> "http", ok |-> FALSE, status |-> st, parses |-> p,
           access_token |-> Absent] : st \in {400, 500}, p \in BOOLEAN}
    \cup {[kind |-> "http", ok |-> TRUE, status |-> 200, parses |-> FALSE,
           access_token |-> Absent]}
    \cup {[kind |-> "http", ok |-> TRUE, status |-> 200, parses |-> TRUE,
           access_token |-> t] : t \in {Absent, "tok1"}}

\* The callback handler up to its first await (lines 51-102).
CallbackReceive(q) ==
    /\ a_pc \in {"idle", "done"}
    /\ cb' = [query |-> q, jar |-> jar]
    /\ cb_token' = NoToken
    /\ LET storedNonce == CookieValue(CookieHeader(jar), "shopify_nonce")
           respond(status, err, g2, used) ==
               /\ a_pc' = "done"
               /\ cb_resp' = AuthResponse(status, err, "", <<>>)
               /\ cb_exchange' = 0
               /\ cb_g2' = g2
               /\ usedNonce' = used
       IN  IF ~Truthy(q.code) \/ ~Truthy(q.shop) \/ ~Truthy(q.state)
           THEN respond(400, "Missing required parameters", FALSE, usedNonce)
           ELSE IF ~Truthy(envApiKey) \/ ~Truthy(envApiSecret)
           THEN respond(500, "API credentials not configured", FALSE,
                        usedNonce)
           ELSE IF ~NonceMatches(q.state, storedNonce)
           THEN respond(403, "Invalid state parameter", FALSE, usedNonce)
           ELSE IF HmacProvided(q) /\ q.hmac /= GeneratedHmac(q)
           THEN respond(403, "Invalid HMAC", TRUE, q.state)
           ELSE /\ a_pc' = "exchange"
                /\ cb_resp' = NoAuthResponse
                /\ cb_exchange' = 1
                /\ cb_g2' = HmacProvided(q)
                /\ UNCHANGED usedNonce
    /\ UNCHANGED <<jar, s_resp>>
    /\ UNCHANGED <<envVars, writerVars, readerVars, uiVars>>

\* `await fetch(token endpoint)` settles and the handler runs to its
\* response (lines 104-125).  The awaits of tokenResponse.text() and
\* tokenResponse.json() are part of this step: the handler reads and writes
\* nothing shared between them.
CallbackTokenSettles(t) ==
    /\ a_pc = "exchange"
    /\ a_pc' = "done"
    /\ cb_token' = t
    /\ usedNonce' = cb.query.state
    /\ IF t.kind = "throw"
       THEN /\ cb_resp' = AuthResponse(500, "Authentication failed", "", <<>>)
            /\ UNCHANGED jar
       ELSE IF ~TokenResponseOk(t)
       THEN /\ cb_resp' = AuthResponse(500, "Failed to get access token", "",
                                       <<>>)
            /\ UNCHANGED jar
       ELSE IF ~t.parses
       THEN /\ cb_resp' = AuthResponse(500, "Authentication failed", "", <<>>)
            /\ UNCHANGED jar
       ELSE LET accessToken == IF t.access_token = Absent THEN "undefined"
                               ELSE t.access_token
                cookies ==
                    <<SetCookie("shopify_access_token", accessToken, ONE_YEAR),
                      SetCookie("shopify_shop", cb.query.shop, ONE_YEAR),
                      SetCookie("shopify_nonce", "", 0)>>
            IN  /\ cb_resp' = AuthResponse(302, "", "/", cookies)
                /\ jar' = ApplySetCookie(jar, cookies)
    /\ UNCHANGED <<s_resp, cb, cb_exchange, cb_g2>>
    /\ UNCHANGED <<envVars, writerVars, readerVars, uiVars>>

\* The callbacks the model sends.  The supplied hmac is one of: none, the
\* empty string, the platform's signature of this query, the platform's
\* signature of the query before its code was replaced, a signature of this
\* query under a key other than the API secret.
UrlOrders == {<<"code", "hmac", "shop", "state", "timestamp">>,
              <<"timestamp", "state", "shop", "hmac", "code">>}

AllQueries ==
    [code : {Absent, "c1"}, shop : {Absent, "shop1"},
     state : {Absent, "n1", "n2"}, timestamp : {Absent, "t1"},
     order : UrlOrders]

Complete(b) == b.code /= Absent /\ b.shop /= Absent /\ b.state /= Absent

\* Queries that lack a required parameter are sent in one form only.
BaseQueries ==
    {b \in AllQueries :
        Complete(b) \/ (b.timestamp = Absent /\ b.order = LexOrder)}

PlatformMessage(b) ==
    LET present == SelectSeq(<<"code", "shop", "state", "timestamp">>,
                             LAMBDA k : b[k] /= Absent)
    IN  [i \in 1..Len(present) |-> <<present[i], b[present[i]]>>]

SuppliedHmacs(b) ==
    IF ~Complete(b) THEN {[hasHmac |-> FALSE, hmac |-> EmptyString]} ELSE
    {[hasHmac |-> FALSE, hmac |-> EmptyString],
     [hasHmac |-> TRUE,  hmac |-> EmptyString],
     [hasHmac |-> TRUE,  hmac |-> HmacSha256("secret", PlatformMessage(b))],
     [hasHmac |-> TRUE,
      hmac |-> HmacSha256("secret", PlatformMessage([b EXCEPT !.code = "c0"]))],
     [hasHmac |-> TRUE,  hmac |-> HmacSha256("key", PlatformMessage(b))]}

CallbackQueries ==
    UNION {{[code |-> b.code, shop |-> b.shop, state |-> b.state,
             timestamp |-> b.timestamp, order |-> b.order,
             hasHmac |-> h.hasHmac, hmac |-> h.hmac] : h \in SuppliedHmacs(b)} :
           b \in BaseQueries}

\* ------------------------------------------------------------------------
\* Products (read inventory) handler
\* ------------------------------------------------------------------------

\* LOCATIONS: the external ids of two of the four configured locations.
BRISTOL == "62584946887"
LONDON  == "71658701033"
LocationIds == {BRISTOL, LONDON}

\* The external platform's catalog: a list of products, each a list of
\* variants; a variant has a sku (Absent for null), a title, and for each
\* location either no inventory level or a level with an `available`
\* quantity (hasAvailable FALSE for null).
NoLevel == [stocked |-> FALSE, hasAvailable |-> FALSE, available |-> 0]

Level(hasAvailable, available) ==
    [stocked |-> TRUE, hasAvailable |-> hasAvailable, available |-> available]

LevelChoices == {NoLevel, Level(FALSE, 0), Level(TRUE, 0), Level(TRUE, 5),
                 Level(TRUE, -3)}

Variant(id, sku, title, levels) ==
    [id |-> id, sku |-> sku, title |-> title, levels |-> levels]

Product(id, variants) == [id |-> id, variants |-> variants]

\* The products query as the platform answers it for a location: the first
\* PRODUCTS_FIRST products, of each the first VARIANTS_FIRST variants, each
\* variant with its inventory level at the location (stocked FALSE: null).
FirstOf(seq, n) == IF Len(seq) <= n THEN seq ELSE SubSeq(seq, 1, n)

LevelAt(variant, locationId) ==
    IF locationId \in DOMAIN variant.levels THEN variant.levels[locationId]
    ELSE NoLevel

PlatformResponse(catalog, locationId) ==
    LET page == FirstOf(catalog, PRODUCTS_FIRST)
    IN  [p \in 1..Len(page) |->
           LET vs == FirstOf(page[p].variants, VARIANTS_FIRST)
           IN  [id |-> page[p].id,
                variants |->
                   [v \in 1..Len(vs) |->
                      [id |-> vs[v].id, sku |-> vs[v].sku,
                       title |-> vs[v].title,
                       inventoryItemId |-> <<"item", vs[v].id>>,
                       inventoryLevel |-> LevelAt(vs[v], locationId)]]]]

\* Locale order of the skus of the model (String.prototype.localeCompare).
SkuOrder == <<"A1", "B2", "No SKU">>

SkuRank(sku) == CHOOSE r \in 1..Len(SkuOrder) : SkuOrder[r] = sku

\* a.sku.localeCompare(b.sku): negative, zero or positive
localeCompare(a, b) == SkuRank(a) - SkuRank(b)

\* variant.sku || 'No SKU'
SkuOrSentinel(sku) == OrElse(sku, "No SKU")

\* A default other than zero: inventoryLevel.available || 1
CurrentStockOrOne(level) ==
    IF level.hasAvailable /\ level.available /= 0 THEN level.available ELSE 1

\* inventoryLevel.available || 0
CurrentStock(level) ==
    IF level.hasAvailable /\ level.available /= 0 THEN level.available ELSE 0

\* variant.title !== 'Default Title' ? variant.title : null
VariantTitle(title) == IF title /= "Default Title" THEN title ELSE Absent

\* The record pushed for a variant (lines 217-227).
InventoryRecord(product, variant) ==
    [id               |-> variant.id,
     productId        |-> product.id,
     variantTitle     |-> VariantTitle(variant.title),
     sku              |-> SkuOrSentinel(variant.sku),
     inventoryItemId  |-> variant.inventoryItemId,
     inventoryLevelId |-> <<"level", variant.id>>,
     currentStock     |-> CurrentStock(variant.inventoryLevel)]

\* A test on the quantity instead of on the level.
HasInventoryLevelAvailable(variant) ==
    /\ variant.inventoryLevel.stocked
    /\ variant.inventoryLevel.hasAvailable
    /\ variant.inventoryLevel.available /= 0

\* `if (inventoryLevel)`
HasInventoryLevel(variant) == variant.inventoryLevel.stocked

\* The inner loop over product.variants.edges (lines 211-229): the records
\* of the variants of a product that pass the test, in their order.
FormatVariants(product) ==
    LET kept == SelectSeq(product.variants, HasInventoryLevel)
    IN  [v \in 1..Len(kept) |-> InventoryRecord(product, kept[v])]

\* The outer loop over data.data.products.edges (lines 208-230), for the
\* products lo..hi of the response: the records of each product appended
\* in product order.
RECURSIVE FormatProducts(_, _, _)
FormatProducts(data, lo, hi) ==
    IF lo > hi THEN <<>>
    ELSE IF lo = hi THEN FormatVariants(data[lo])
    ELSE LET mid == (lo + hi) \div 2
         IN  FormatProducts(data, lo, mid) \o FormatProducts(data, mid + 1, hi)

\* A sort that does not keep the order of elements that compare equal.
SortPositionUnstable(seq, i) ==
    Cardinality({j \in 1..Len(seq) :
        \/ localeCompare(seq[j].sku, seq[i].sku) < 0
        \/ localeCompare(seq[j].sku, seq[i].sku) = 0 /\ j >= i})

\* The position Array.prototype.sort gives the i-th element under the
\* comparator of line 233: behind every element that compares smaller and
\* every earlier element that compares equal (the sort is stable).
SortPosition(seq, i) ==
    Cardinality({j \in 1..Len(seq) :
        \/ localeCompare(seq[j].sku, seq[i].sku) < 0
        \/ localeCompare(seq[j].sku, seq[i].sku) = 0 /\ j <= i})

\* products.sort((a, b) => a.sku.localeCompare(b.sku))
SortBySku(seq) ==
    LET n   == Len(seq)
        pos == SubSeq([i \in 1..n |-> SortPosition(seq, i)], 1, n)
    IN  SubSeq([k \in 1..n |-> seq[CHOOSE i \in 1..n : pos[i] = k]], 1, n)

\* Requests to the handler.  `repeated`: locationId occurs more than once
\* in the query string, so req.query.locationId is an array.
ReaderRequests ==
    [method : {"GET", "POST"},
     locationId : {Absent, BRISTOL, LONDON},
     repeated : BOOLEAN,
     cookies : WriterCookieJars]

\* Catalogs of the model.
\*  - two variants of one product, each with any level at each location;
\*  - three variants over two products, all stocked, with any skus;
\*  - one more product than a page holds; one more variant than a page
\*    of variants holds.
SkuChoices == {Absent, "", "A1", "B2"}

LevelsAt(b, l) == [loc \in LocationIds |-> IF loc = BRISTOL THEN b ELSE l]

StockCatalogs ==
    {<<Product("p1", <<Variant("v1", "B2", "Default Title", LevelsAt(b1, l1)),
                       Variant("v2", "A1", "Large", LevelsAt(b2, l2))>>)>> :
        b1 \in LevelChoices, b2 \in LevelChoices,
        l1 \in {NoLevel, Level(TRUE, 5)}, l2 \in {NoLevel, Level(TRUE, 5)}}

Stocked5 == LevelsAt(Level(TRUE, 5), Level(TRUE, 5))

SkuCatalogs ==
    {<<Product("p1", <<Variant("v1", s1, "Small", Stocked5),
                       Variant("v2", s2, "Large", Stocked5)>>),
       Product("p2", <<Variant("v3", s3, "Default Title", Stocked5)>>)>> :
        s1 \in SkuChoices, s2 \in SkuChoices, s3 \in SkuChoices}

ManyProducts ==
    [p \in 1..(PRODUCTS_FIRST + 1) |->
        Product(<<"p", p>>,
                <<Variant(<<"v", p>>, "A1", "Default Title", Stocked5)>>)]

ManyVariants ==
    <<Product("p1",
        [v \in 1..(VARIANTS_FIRST + 1) |->
            Variant(<<"v", v>>, "A1", "Small", Stocked5)])>>

Catalogs == StockCatalogs \cup SkuCatalogs \cup {ManyProducts, ManyVariants}

\* What the external endpoint can answer to the products query.
\*   kind "throw" : fetch rejects;  otherwise ok / status as given
\*   parses : whether response.json() resolves
\*   hasErrors / errors : data.errors (key present / its messages)
\*   hasData : data.data is not null;  catalog : what the platform holds
NoUpstream == [kind |-> "none", ok |-> FALSE, status |-> 0, parses |-> FALSE,
               hasErrors |-> FALSE, errors |-> <<>>, hasData |-> FALSE,
               catalog |-> <<>>]

ReaderOutcomes ==
    {[NoUpstream EXCEPT !.kind = "throw"]}
    \cup {[NoUpstream EXCEPT !.kind = "http", !.status = st] : st \in {401, 500}}
    \cup {[NoUpstream EXCEPT !.kind = "http", !.ok = TRUE, !.status = 200]}
    \cup {[NoUpstream EXCEPT !.kind = "http", !.ok = TRUE, !.status = 200,
                             !.parses = TRUE, !.hasErrors = TRUE, !.errors = e] :
             e \in ErrorLists}
    \cup {[NoUpstream EXCEPT !.kind = "http", !.ok = TRUE, !.status = 200,
                             !.parses = TRUE]}
    \cup {[NoUpstream EXCEPT !.kind = "http", !.ok = TRUE, !.status = 200,
                             !.parses = TRUE, !.hasData = TRUE, !.catalog = c] :
             c \in Catalogs}

ReaderResponse(status, err, auth, hasProducts, list) ==
    [status |-> status, error |-> err, needsAuth |-> auth,
     hasProducts |-> hasProducts, products |-> list]

NoReaderResponse == ReaderResponse(0, "", FALSE, FALSE, <<>>)

ReaderError(status, err) == ReaderResponse(status, err, FALSE, FALSE, <<>>)

\* `!ACCESS_TOKEN` (line 147): the handler reads the access token from the
\* environment only; the request's cookies are not looked at.
ReaderAccessToken(req) ==
    IF Truthy(envAccessToken) THEN envAccessToken ELSE Absent

\* The response to a request without an access token (line 148).
ReaderNoToken == ReaderError(500, "Access token not configured")

\* The handler up to its await (lines 137-192).
ReaderReceive(req) ==
    /\ r_pc \in {"idle", "done"}
    /\ r_req' = req
    /\ r_upstream' = NoUpstream
    /\ IF req.method /= "GET"
       THEN /\ r_pc' = "done" /\ r_calls' = 0
            /\ r_resp' = ReaderError(405, "Method not allowed")
       ELSE IF ~Truthy(req.locationId) \/ req.repeated
       THEN /\ r_pc' = "done" /\ r_calls' = 0
            /\ r_resp' = ReaderError(400, "Location ID is required")
       ELSE IF ~Truthy(ReaderAccessToken(req))
       THEN /\ r_pc' = "done" /\ r_calls' = 0
            /\ r_resp' = ReaderNoToken
       ELSE /\ r_pc' = "fetch" /\ r_calls' = 1
            /\ r_resp' = NoReaderResponse
    /\ UNCHANGED <<envVars, writerVars, authVars, uiVars>>

\* `await fetch(...)` settles and the handler runs to its response (lines
\* 194-241).  The await of response.json() is part of this step.
ReaderSettles(o) ==
    /\ r_pc = "fetch"
    /\ r_pc' = "done"
    /\ r_upstream' = o
    /\ r_resp' =
          IF o.kind = "throw" THEN ReaderError(500, "fetch failed")
          ELSE IF ~o.ok
          THEN ReaderError(500, <<"Shopify API error: ", o.status>>)
          ELSE IF ~o.parses THEN ReaderError(500, "Unexpected token")
          ELSE IF o.hasErrors
          THEN ReaderError(500,
                  IF o.errors /= <<>> /\ o.errors[1] /= ""
                  THEN o.errors[1] ELSE "GraphQL error")
          ELSE IF ~o.hasData
          THEN ReaderError(500, "Cannot read properties of null")
          ELSE ReaderResponse(200, "", FALSE, TRUE,
                  LET data == PlatformResponse(o.catalog, r_req.locationId)
                  IN  SortBySku(FormatProducts(data, 1, Len(data))))
    /\ UNCHANGED <<r_req, r_calls>>
    /\ UNCHANGED <<envVars, writerVars, authVars, uiVars>>

\* ------------------------------------------------------------------------
\* Stock counter page (Home, lines 619-915)
\*
\* Texts the page computes with are sequences of characters.  The toast
\* and the product images are presentation only and are not modelled.
\* ------------------------------------------------------------------------

Digits == <<"0", "1", "2", "3", "4", "5", "6", "7", "8", "9">>

\* \d
IsDigit(c) == \E d \in 1..Len(Digits) : Digits[d] = c

DigitValue(c) == (CHOOSE d \in 1..Len(Digits) : Digits[d] = c) - 1

RECURSIVE NatToStr(_)
NatToStr(n) ==
    IF n < Len(Digits) THEN <<Digits[n + 1]>>
    ELSE NatToStr(n \div Len(Digits)) \o <<Digits[(n % Len(Digits)) + 1]>>

\* Number.prototype.toString() of an integer
ToStr(n) == IF n < 0 THEN <<"-">> \o NatToStr(-n) ELSE NatToStr(n)

\* A number: an integer or NaN.
NaN == [nan |-> TRUE, n |-> 0]

Num(n) == [nan |-> FALSE, n |-> n]

\* The length of the longest prefix of digits of a text.
LeadingDigits(text) ==
    CHOOSE k \in 0..Len(text) :
        /\ \A i \in 1..k : IsDigit(text[i])
        /\ k = Len(text) \/ ~IsDigit(text[k + 1])

RECURSIVE DigitsValue(_)
DigitsValue(text) ==
    IF text = <<>> THEN 0
    ELSE DigitsValue(SubSeq(text, 1, Len(text) - 1)) * Len(Digits)
            + DigitValue(text[Len(text)])

\* parseInt(text, 10): an optional sign, then the longest prefix of digits;
\* NaN when there is no digit.  (The texts of the model hold no whitespace.)
parseInt(text) ==
    LET signed == text /= <<>> /\ text[1] \in {"-", "+"}
        rest   == IF signed THEN Tail(text) ELSE text
        k      == LeadingDigits(rest)
        value  == DigitsValue(SubSeq(rest, 1, k))
    IN  IF k = 0 THEN NaN
        ELSE IF signed /\ text[1] = "-" THEN Num(-value) ELSE Num(value)

\* A test for a digit anywhere in the value: /\d/.test(value)
DigitsOnlyUnanchored(value) == \E i \in 1..Len(value) : IsDigit(value[i])

\* /^\d*$/.test(value)
DigitsOnly(value) == \A i \in 1..Len(value) : IsDigit(value[i])

\* String.prototype.toLowerCase on the letters of the model
LowerChar(c) == IF c = "A" THEN "a" ELSE IF c = "B" THEN "b" ELSE c

toLowerCase(text) == [i \in 1..Len(text) |-> LowerChar(text[i])]

\* String.prototype.includes
includes(text, query) ==
    \E i \in 1..(Len(text) - Len(query) + 1) :
        SubSeq(text, i, i + Len(query) - 1) = query

\* String.prototype.trim() leaves the empty string
TrimsToEmpty(text) == \A i \in 1..Len(text) : text[i] = " "

\* LOCATIONS (lines 610-615): two of the four keys.
LocationKeys == {"bristol", "london"}

LocationIdOf(key) == IF key = "bristol" THEN BRISTOL ELSE LONDON

\* The Product records of the model, as /api/products returns them.
UiProduct(id, sku, productTitle, stock) ==
    [id |-> id, inventoryItemId |-> <<"item", id>>, sku |-> sku,
     productTitle |-> productTitle, variantTitle |-> Absent,
     currentStock |-> stock]

ProductLists ==
    {<<>>,
     <<UiProduct("v1", <<"A", "1">>, <<"B", "a", "g">>, 5)>>,
     <<UiProduct("v1", <<"A", "1">>, <<"B", "a", "g">>, -3),
       UiProduct("v2", <<"B", "2">>, <<"B", "o", "x">>, 5)>>}

ProductIds == {"v1", "v2"}

\* What the user can type into a stock input, and into the search box.
EditTexts == {<<>>, <<"5">>, <<"0", "5">>, <<"7">>, <<"5", "a">>}

SearchQueries == {<<>>, <<"a", "1">>}

\* Every input emptied instead of reset.
InitialValuesEmpty(list) ==
    [id \in {list[k].id : k \in 1..Len(list)} |-> <<>>]

\* initialValues (lines 651-654, 762-765): every product's currentStock as
\* a string.
InitialValues(list) ==
    [id \in {list[k].id : k \in 1..Len(list)} |->
        LET last == CHOOSE k \in 1..Len(list) :
                        /\ list[k].id = id
                        /\ \A j \in (k + 1)..Len(list) : list[j].id /= id
        IN  ToStr(list[last].currentStock)]

\* The test of line 680 without its comparison with the original value.
IsChangedNoOriginal(product, values) ==
    /\ product.id \in DOMAIN values
    /\ values[product.id] /= <<>>

\* currentValue !== undefined && currentValue !== originalValue &&
\* currentValue !== '' (line 680)
IsChanged(product, values) ==
    /\ product.id \in DOMAIN values
    /\ values[product.id] /= ToStr(product.currentStock)
    /\ values[product.id] /= <<>>

\* The StockChange pushed for a product (lines 681-686).
StockChange(product, values) ==
    [inventoryItemId |-> product.inventoryItemId,
     sku             |-> product.sku,
     oldValue        |-> product.currentStock,
     newValue        |-> parseInt(values[product.id])]

\* A StockChange pushed for every input that differs from the baseline,
\* the emptied ones included.
ChangesOfEveryEdit(list, values) ==
    LET changed == SelectSeq(list, LAMBDA product :
                       /\ product.id \in DOMAIN values
                       /\ values[product.id] /= ToStr(product.currentStock))
    IN  [k \in 1..Len(changed) |-> StockChange(changed[k], values)]

\* changes (lines 673-691), for a baseline and an edit map.
Changes(list, values) ==
    LET changed == SelectSeq(list, LAMBDA product : IsChanged(product, values))
    IN  [k \in 1..Len(changed) |-> StockChange(changed[k], values)]

\* filteredProducts (lines 694-704)
Matches(product, query) ==
    \/ includes(toLowerCase(product.sku), query)
    \/ includes(toLowerCase(product.productTitle), query)
    \/ /\ Truthy(product.variantTitle)
       /\ includes(toLowerCase(product.variantTitle), query)

filteredProducts ==
    IF TrimsToEmpty(searchQuery) THEN products
    ELSE SelectSeq(products,
                   LAMBDA product : Matches(product, toLowerCase(searchQuery)))

\* The diff taken over the products the search shows.
changesFiltered == Changes(filteredProducts, stockValues)

changes == Changes(products, stockValues)

\* The stock input of the product is on the page (lines 815-885).
InputRendered(id) ==
    /\ ~loading
    /\ ~needsAuth
    /\ \E k \in 1..Len(filteredProducts) : filteredProducts[k].id = id

\* Only the first change mapped to an update.
UpdatesOfFirst(list, locationId) ==
    [k \in 1..(IF Len(list) > 0 THEN 1 ELSE 0) |->
        [inventoryItemId |-> list[k].inventoryItemId,
         locationId      |-> locationId,
         quantity        |-> list[k].newValue]]

\* updates (lines 727-731)
UpdatesOf(list, locationId) ==
    [k \in 1..Len(list) |->
        [inventoryItemId |-> list[k].inventoryItemId,
         locationId      |-> locationId,
         quantity        |-> list[k].newValue]]

\* What /api/products can answer to the page.
\*   kind "throw" : fetch or response.json() rejects
\*   needsAuth    : data.needsAuth;  ok : response.ok
FetchOutcomes ==
    {[kind |-> "throw", ok |-> FALSE, needsAuth |-> FALSE, products |-> <<>>],
     [kind |-> "http", ok |-> FALSE, needsAuth |-> TRUE, products |-> <<>>],
     [kind |-> "http", ok |-> FALSE, needsAuth |-> FALSE, products |-> <<>>]}
    \cup {[kind |-> "http", ok |-> TRUE, needsAuth |-> FALSE, products |-> l] :
             l \in ProductLists}

\* What /api/update-inventory can answer to the page.
\*   failed : result.failed > 0
SaveOutcomes ==
    {[kind |-> "throw", ok |-> FALSE, failed |-> FALSE],
     [kind |-> "http", ok |-> FALSE, failed |-> FALSE],
     [kind |-> "http", ok |-> TRUE, failed |-> FALSE],
     [kind |-> "http", ok |-> TRUE, failed |-> TRUE]}

\* The check of the Writer's response skipped.
SaveResponseOkUnchecked(o) == TRUE

\* `!response.ok` (line 741)
SaveResponseOk(o) == o.ok

NoSaveLog == [writer |-> "none", refetch |-> "none"]

\* What the Writer answered to the POST, for the history of the save.
WriterAnswer(o) ==
    IF o.kind = "throw" THEN "throw"
    ELSE IF ~o.ok THEN "error"
    ELSE IF o.failed THEN "partial" ELSE "ok"

\* The history of an event other than the end of handleSave; `edited` are
\* the ids whose input the event wrote.
EventOf(kind, edited) ==
    /\ ui_event' = kind
    /\ ui_saveLog' = IF ui_save = "idle" THEN NoSaveLog ELSE ui_saveLog
    /\ ui_midSave' = IF ui_save = "idle" THEN {} ELSE ui_midSave \cup edited

Event(kind) == EventOf(kind, {})

\* fetchProducts up to its await (lines 632-634).
FetchProductsStart(locationId, forSave) ==
    /\ loading' = TRUE
    /\ ui_fetches' = Append(ui_fetches,
                            [loc |-> locationId, forSave |-> forSave])

\* handleStockChange (lines 711-719), called by the input of a product.
HandleStockChange(id, value) ==
    /\ InputRendered(id)
    /\ IF value /= <<>> /\ ~DigitsOnly(value)
       THEN /\ Event("rejected")
            /\ UNCHANGED <<stockValues, ui_dirtied>>
       ELSE /\ EventOf("other",
                       IF id \in DOMAIN stockValues /\ stockValues[id] = value
                       THEN {} ELSE {id})
            /\ stockValues' =
                  [x \in DOMAIN stockValues \cup {id} |->
                      IF x = id THEN value ELSE stockValues[x]]
            /\ ui_dirtied' =
                  IF value /= InitialValues(products)[id]
                  THEN ui_dirtied \cup {id} ELSE ui_dirtied
    /\ UNCHANGED <<selectedLocation, products, loading, saving, searchQuery,
                   needsAuth, ui_fetches, ui_save, ui_batch, ui_productsLoc>>
    /\ UNCHANGED <<envVars, writerVars, authVars, readerVars>>

\* The Save button never disabled.
SaveDisabledNever == FALSE

\* disabled={saving} of the Save button (line 902)
SaveDisabled == saving

\* handleSave up to its first await (lines 721-737), called by the Save
\* button.
HandleSave ==
    /\ ~SaveDisabled
    /\ Len(ui_fetches) < MaxInFlight
    /\ IF Len(changes) = 0
       THEN /\ Event("other")
            /\ UNCHANGED <<saving, ui_save, ui_batch>>
       ELSE /\ saving' = TRUE
            /\ ui_save' = "posting"
            /\ ui_batch' = UpdatesOf(changes, LocationIdOf(selectedLocation))
            /\ ui_event' = "other"
            /\ ui_saveLog' = [writer |-> "pending", refetch |-> "none"]
            /\ ui_midSave' = {}
    /\ UNCHANGED <<selectedLocation, products, stockValues, loading,
                   searchQuery, needsAuth, ui_fetches, ui_productsLoc,
                   ui_dirtied>>
    /\ UNCHANGED <<envVars, writerVars, authVars, readerVars>>

\* The POST of handleSave settles (lines 733-758): on an OK response the
\* handler goes on to fetchProducts and waits for it; otherwise it ends in
\* its catch and finally blocks.
SaveResponse(o) ==
    /\ ui_save = "posting"
    /\ ui_event' = "other"
    /\ IF o.kind = "throw" \/ ~SaveResponseOk(o)
       THEN /\ saving' = FALSE
            /\ ui_save' = "idle"
            /\ ui_batch' = <<>>
            /\ ui_saveLog' = [writer |-> WriterAnswer(o), refetch |-> "none"]
            /\ UNCHANGED <<loading, ui_fetches>>
       ELSE /\ FetchProductsStart(LocationIdOf(selectedLocation), TRUE)
            /\ ui_save' = "refetching"
            /\ ui_saveLog' = [writer |-> WriterAnswer(o),
                              refetch |-> "pending"]
            /\ UNCHANGED <<saving, ui_batch>>
    /\ UNCHANGED <<selectedLocation, products, stockValues, searchQuery,
                   needsAuth, ui_productsLoc, ui_dirtied, ui_midSave>>
    /\ UNCHANGED <<envVars, writerVars, authVars, readerVars>>

\* The i-th pending call of fetchProducts settles and runs to its end
\* (lines 635-661); when handleSave awaited it, handleSave runs to its end
\* too (line 757).
FetchResponse(i, o) ==
    /\ i \in 1..Len(ui_fetches)
    /\ LET f == ui_fetches[i]
           result == IF o.kind = "throw" THEN "failed"
                     ELSE IF o.needsAuth THEN "needsAuth"
                     ELSE IF ~o.ok THEN "failed" ELSE "ok"
       IN  /\ ui_fetches' = [k \in 1..(Len(ui_fetches) - 1) |->
                                IF k < i THEN ui_fetches[k]
                                         ELSE ui_fetches[k + 1]]
           /\ loading' = FALSE
           /\ IF result = "needsAuth"
              THEN /\ needsAuth' = TRUE
                   /\ UNCHANGED <<products, stockValues, ui_productsLoc,
                                  ui_dirtied>>
              ELSE IF result = "failed"
              THEN UNCHANGED <<needsAuth, products, stockValues,
                               ui_productsLoc, ui_dirtied>>
              ELSE /\ products' = o.products
                   /\ needsAuth' = FALSE
                   /\ stockValues' = InitialValues(o.products)
                   /\ ui_productsLoc' = f.loc
                   /\ ui_dirtied' = {}
           /\ IF f.forSave
              THEN /\ saving' = FALSE
                   /\ ui_save' = "idle"
                   /\ ui_batch' = <<>>
                   /\ ui_event' = "other"
                   /\ ui_saveLog' = [ui_saveLog EXCEPT !.refetch = result]
                   /\ UNCHANGED ui_midSave
              ELSE /\ Event("other")
                   /\ UNCHANGED <<saving, ui_save, ui_batch>>
    /\ UNCHANGED <<selectedLocation, searchQuery>>
    /\ UNCHANGED <<envVars, writerVars, authVars, readerVars>>

\* handleDiscard (lines 761-767).  The Discard button is disabled while
\* saving.
HandleDiscard ==
    /\ ~saving
    /\ stockValues' = InitialValues(products)
    /\ ui_dirtied' = {}
    /\ Event(IF Len(changes) > 0 THEN "discarded" ELSE "discard")
    /\ UNCHANGED <<selectedLocation, products, loading, saving, searchQuery,
                   needsAuth, ui_fetches, ui_save, ui_batch, ui_productsLoc>>
    /\ UNCHANGED <<envVars, writerVars, authVars, readerVars>>

\* handleLocationChange (lines 769-776) and the effect of lines 664-666.
\* The select is disabled while loading or saving; `confirmed` is the
\* user's answer to the confirm dialog.
HandleLocationChange(key, confirmed) ==
    /\ ~(loading \/ saving)
    /\ key /= selectedLocation
    /\ Len(ui_fetches) < MaxInFlight
    /\ IF Len(changes) > 0 /\ ~confirmed
       THEN UNCHANGED <<selectedLocation, loading, ui_fetches>>
       ELSE /\ selectedLocation' = key
            /\ FetchProductsStart(LocationIdOf(key), FALSE)
    /\ Event("other")
    /\ UNCHANGED <<products, stockValues, saving, searchQuery, needsAuth,
                   ui_save, ui_batch, ui_productsLoc, ui_dirtied>>
    /\ UNCHANGED <<envVars, writerVars, authVars, readerVars>>

\* The search box (line 811).
SetSearchQuery(query) ==
    /\ searchQuery' = query
    /\ Event("other")
    /\ UNCHANGED <<selectedLocation, products, stockValues, loading, saving,
                   needsAuth, ui_fetches, ui_save, ui_batch, ui_productsLoc,
                   ui_dirtied>>
    /\ UNCHANGED <<envVars, writerVars, authVars, readerVars>>

\* The page after it was mounted: the initial state of lines 621-628 and
\* the effect of lines 664-666 run once.
UiMounted ==
    /\ selectedLocation = "bristol"
    /\ products = <<>>
    /\ stockValues = <<>>
    /\ loading = TRUE
    /\ saving = FALSE
    /\ searchQuery = <<>>
    /\ needsAuth = FALSE
    /\ ui_fetches = <<[loc |-> BRISTOL, forSave |-> FALSE]>>
    /\ ui_save = "idle"
    /\ ui_batch = <<>>
    /\ ui_productsLoc = BRISTOL
    /\ ui_event = "other"
    /\ ui_saveLog = NoSaveLog
    /\ ui_dirtied = {}
    /\ ui_midSave = {}

EnvTokens == {"", "envtok"}

AuthIdle ==
    /\ jar = NoCookies
    /\ s_resp = NoAuthResponse
    /\ a_pc = "idle"
    /\ cb = [query |-> [code |-> Absent, shop |-> Absent, state |-> Absent,
                        timestamp |-> Absent, order |-> LexOrder,
                        hasHmac |-> FALSE, hmac |-> EmptyString],
             jar |-> NoCookies]
    /\ cb_exchange = 0
    /\ cb_g2 = FALSE
    /\ cb_token = NoToken
    /\ cb_resp = NoAuthResponse
    /\ usedNonce = Absent

ReaderIdle ==
    /\ r_pc = "idle"
    /\ r_req = [method |-> "GET", locationId |-> Absent, repeated |-> FALSE,
                cookies |-> NoCookies]
    /\ r_calls = 0
    /\ r_upstream = NoUpstream
    /\ r_resp = NoReaderResponse

WriterIdle ==
    /\ w_pc = "idle"
    /\ w_req = [method |-> "POST", cookies |-> NoCookies,
                body |-> [kind |-> "object", updates |-> <<>>]]
    /\ w_updates = <<>>
    /\ w_i = 1
    /\ w_results = EmptyResults
    /\ w_calls = <<>>
    /\ w_callIdx = <<>>
    /\ w_outstanding = 0
    /\ w_outcomes = <<>>
    /\ w_elapsed = 0
    /\ w_resp = NoResponse

InitWriter ==
    /\ envAccessToken \in EnvTokens
    /\ envApiKey = "key"
    /\ envApiSecret = "secret"
    /\ WriterIdle
    /\ AuthIdle
    /\ ReaderIdle
    /\ UiMounted

NextWriter ==
    \/ \E req \in WriterRequests : WriterReceive(req)
    \/ \E o \in Outcomes : WriterFetchSettles(o)
    \/ WriterJsonSettles
    \/ WriterDelayElapses

SpecWriter == InitWriter /\ [][NextWriter]_vars

InitReader ==
    /\ envAccessToken \in EnvTokens
    /\ envApiKey = "key"
    /\ envApiSecret = "secret"
    /\ WriterIdle
    /\ AuthIdle
    /\ ReaderIdle
    /\ UiMounted

NextReader ==
    \/ \E req \in ReaderRequests : ReaderReceive(req)
    \/ \E o \in ReaderOutcomes : ReaderSettles(o)

SpecReader == InitReader /\ [][NextReader]_vars

InitUI ==
    /\ envAccessToken = "envtok"
    /\ envApiKey = "key"
    /\ envApiSecret = "secret"
    /\ WriterIdle
    /\ AuthIdle
    /\ ReaderIdle
    /\ UiMounted

NextUI ==
    \/ \E id \in ProductIds, value \in EditTexts : HandleStockChange(id, value)
    \/ HandleSave
    \/ \E o \in SaveOutcomes : SaveResponse(o)
    \/ \E i \in 1..MaxInFlight, o \in FetchOutcomes : FetchResponse(i, o)
    \/ HandleDiscard
    \/ \E key \in LocationKeys, confirmed \in BOOLEAN :
          HandleLocationChange(key, confirmed)
    \/ \E query \in SearchQueries : SetSearchQuery(query)

SpecUI == InitUI /\ [][NextUI]_vars

\* ------------------------------------------------------------------------
\* Properties of the update-inventory handler
\* ------------------------------------------------------------------------

\* A batch was accepted and the handler has answered.
WriterBatchDone == w_pc = "done" /\ Len(w_updates) > 0

\* The credential the handler resolves for w_req is present.
WriterHasCredential ==
    Truthy(w_req.cookies.shopify_access_token) \/ Truthy(envAccessToken)

\* C1: for every accepted non-empty list of n updates the handler makes
\* exactly n mutation calls and returns results with success + failed = n,
\* whatever the outcome of each call (transport failure included).
WriterCallsAndCountsEqualN ==
    WriterBatchDone =>
        /\ Len(w_calls) = Len(w_updates)
        /\ w_resp.kind = "results"
        /\ w_resp.results.success + w_resp.results.failed = Len(w_updates)

\* C2: a failure of the call for update i never prevents updates i+1..n
\* from being attempted: when the handler returns, every update of the
\* batch has had its own call exactly once.
WriterEveryUpdateCalledOnce ==
    WriterBatchDone =>
        \A k \in 1..Len(w_updates) :
            Cardinality({c \in 1..Len(w_callIdx) : w_callIdx[c] = k}) = 1

\* The calls settled so far all ended in one of: success, error payload,
\* non-OK HTTP status.
WriterOutcomesAnswered ==
    \A c \in 1..Len(w_outcomes) :
        w_outcomes[c].kind = "http" /\ (w_outcomes[c].ok => w_outcomes[c].parses)

\* C7: the 100 ms delay follows every mutation call whatever its outcome
\* (success, error payload, non-OK status), before the next call is issued
\* or the handler returns.
WriterDelayAfterEveryCall ==
    (w_pc \in {"fetch", "done"} /\ WriterOutcomesAnswered) =>
        w_elapsed = DELAY_MS * Len(w_outcomes)

\* C8: calls are issued one at a time and in input order: never two calls
\* outstanding, call k+1 is issued only after call k has settled, and the
\* calls made are those of a prefix of the update list, in its order.
WriterSequentialInOrder ==
    /\ w_outstanding <= 1
    /\ w_outstanding = Len(w_calls) - Len(w_outcomes)
    /\ Len(w_calls) <= Len(w_updates)
    /\ \A c \in 1..Len(w_calls) :
          /\ w_callIdx[c] = c
          /\ w_calls[c].inventoryItemId = w_updates[c].inventoryItemId
          /\ w_calls[c].quantity = w_updates[c].quantity

\* C8 witness: a batch of two different items has been called through, the
\* second call issued after the first one failed.
WriterSequentialWitness ==
    /\ w_pc = "done"
    /\ Len(w_updates) = 2
    /\ w_updates[1].inventoryItemId /= w_updates[2].inventoryItemId
    /\ Len(w_calls) = 2
    /\ ~w_outcomes[1].ok

\* The update list of w_req is empty, missing or not a list.
WriterListEmptyOrMissing ==
    \/ w_req.body.kind \in {"object", "scalar"}
    \/ w_req.body.kind = "list" /\ w_req.body.updates = <<>>

WriterClassified ==
    {c \in 1..Len(w_outcomes) :
        /\ w_outcomes[c].kind = "http"
        /\ w_outcomes[c].ok => w_outcomes[c].parses
        /\ ~(c = Len(w_outcomes) /\ w_pc = "json")}

\* The outcome counts as failed according to the classification rules.
OutcomeFailed(o) ==
    \/ ~o.ok
    \/ o.data.hasErrors
    \/ o.data.hasUserErrors /\ o.data.userErrors /= <<>>

\* The non-empty first messages of the error lists a payload carries.
FirstMessages(d) ==
    {m \in ({d.errors[i] : i \in {j \in {1} : d.errors /= <<>>}}
            \cup {d.userErrors[i] : i \in {j \in {1} : d.userErrors /= <<>>}}) :
        m /= ""}

\* The entry of the errors list matches the failed outcome of the update.
EntryMatches(e, u, o) ==
    /\ e.item = u.inventoryItemId
    /\ IF ~o.ok
       THEN e.prefix = "API error for " /\ e.detail = ToString(o.status)
       ELSE /\ e.prefix = "Failed "
            /\ FirstMessages(o.data) /= {} => e.detail \in FirstMessages(o.data)

\* The classified calls that failed, in the order of the calls.
RECURSIVE FailedUpTo(_)
FailedUpTo(n) ==
    IF n = 0 THEN <<>>
    ELSE IF n \in WriterClassified /\ OutcomeFailed(w_outcomes[n])
         THEN Append(FailedUpTo(n - 1), n)
         ELSE FailedUpTo(n - 1)

\* C10: per-update classification: a non-OK status is a failure recorded as
\* "API error for <item>: <status>"; an OK response with a top-level error
\* list or non-empty userErrors is a failure recorded as
\* "Failed <item>: <first error message>"; anything else is a success; the
\* errors list has exactly `failed` entries, in input order of the failed
\* items, and a 200 response carries these results.
WriterClassification ==
    LET failedCalls == FailedUpTo(Len(w_outcomes))
    IN  /\ w_results.failed = Len(failedCalls)
        /\ w_results.success = Cardinality(WriterClassified) - Len(failedCalls)
        /\ Len(w_results.errors) = w_results.failed
        /\ \A i \in 1..Len(failedCalls) :
              i <= Len(w_results.errors) =>
                 EntryMatches(w_results.errors[i],
                              w_updates[failedCalls[i]],
                              w_outcomes[failedCalls[i]])
        /\ w_resp.kind = "results" => w_resp.results = w_results

\* C10 witness: the batch [{item A, location 1, quantity 5}] whose call
\* returned a field error is answered {success 0, failed 1, ["Failed A: u1"]}.
WriterClassificationWitness ==
    /\ w_pc = "done"
    /\ w_updates = <<[inventoryItemId |-> "A", locationId |-> "1",
                      quantity |-> 5]>>
    /\ w_outcomes[1].ok
    /\ ~w_outcomes[1].data.hasErrors
    /\ w_resp.status = 200
    /\ w_resp.results =
          [success |-> 0, failed |-> 1,
           errors |-> <<[prefix |-> "Failed ", item |-> "A",
                         detail |-> "u1"]>>]

\* ------------------------------------------------------------------------
\* Properties of the authorization handshake
\* ------------------------------------------------------------------------

\* cb carries code, shop and state, and the API key and secret are set:
\* the request gets as far as the guards.
CallbackReachesGuards ==
    /\ Truthy(cb.query.code) /\ Truthy(cb.query.shop) /\ Truthy(cb.query.state)
    /\ Truthy(envApiKey) /\ Truthy(envApiSecret)

\* The state of cb differs from the nonce cookie it arrived with, or it
\* arrived with no nonce cookie.
CallbackStateMismatch ==
    cb.jar.shopify_nonce = Absent \/ cb.query.state /= cb.jar.shopify_nonce

\* The HMAC-SHA256, under the API secret, of the sorted key=value
\* parameters of a query other than hmac.
ExpectedHmac(q) == HmacSha256(envApiSecret, PlatformMessage(q))

\* C3: guard 1: a callback whose state differs from the stored nonce, or
\* that arrives without a nonce cookie, is rejected with 403 and causes no
\* call of the token endpoint.
CallbackGuard1 ==
    (a_pc /= "idle" /\ CallbackStateMismatch) =>
        /\ a_pc = "done"
        /\ cb_exchange = 0
        /\ cb_resp.cookies = <<>>
        /\ CallbackReachesGuards => cb_resp.status = 403

\* C3 witness: a callback that arrived without a nonce cookie was answered
\* 403.
CallbackGuard1Witness ==
    /\ a_pc = "done"
    /\ CallbackReachesGuards
    /\ cb.jar.shopify_nonce = Absent
    /\ cb_resp.status = 403
    /\ cb_resp.error = "Invalid state parameter"

\* C4 as stated: a callback that carries an hmac parameter differing from
\* the recomputed HMAC is rejected with 403 before any token-endpoint call.
CallbackGuard2AnyHmac ==
    (a_pc /= "idle" /\ CallbackReachesGuards /\ ~CallbackStateMismatch
     /\ cb.query.hasHmac /\ cb.query.hmac /= ExpectedHmac(cb.query)) =>
        /\ a_pc = "done"
        /\ cb_exchange = 0
        /\ cb_resp.status = 403

\* C4 amended: a callback that carries a non-empty hmac parameter differing
\* from the recomputed HMAC is rejected with 403 before any token-endpoint
\* call; the guard is evaluated only for a non-empty hmac and only after
\* guard 1 has passed.
CallbackGuard2 ==
    /\ (a_pc /= "idle" /\ CallbackReachesGuards /\ ~CallbackStateMismatch
        /\ cb.query.hasHmac /\ cb.query.hmac /= EmptyString
        /\ cb.query.hmac /= ExpectedHmac(cb.query)) =>
           /\ a_pc = "done"
           /\ cb_exchange = 0
           /\ cb_resp.status = 403
    /\ cb_g2 =>
           /\ cb.query.hasHmac /\ cb.query.hmac /= EmptyString
           /\ CallbackReachesGuards /\ ~CallbackStateMismatch

\* C4 witness: a callback that passed guard 1 with an hmac signed over
\* other parameters was answered 403 "Invalid HMAC".
CallbackGuard2Witness ==
    /\ a_pc = "done"
    /\ cb_g2
    /\ ~CallbackStateMismatch
    /\ cb.query.hmac /= EmptyString
    /\ cb.query.hmac /= ExpectedHmac(cb.query)
    /\ cb_resp.status = 403
    /\ cb_resp.error = "Invalid HMAC"

\* Guard 2 holds of cb: no hmac to verify, or the hmac is the expected one.
CallbackHmacAcceptable ==
    \/ ~cb.query.hasHmac
    \/ cb.query.hmac = EmptyString
    \/ cb.query.hmac = ExpectedHmac(cb.query)

\* C5: the callback sets the access_token and shop cookies and redirects to
\* the application root only if both guards passed and the token-exchange
\* POST returned a success status; a non-success status is answered 500
\* with no cookie set; the token endpoint is called at most once per
\* callback and a failure response ends the request.
CallbackAuthenticatedOnlyAfterExchange ==
    /\ cb_exchange <= 1
    /\ (cb_resp.status = 302 \/ cb_resp.cookies /= <<>>) =>
           /\ a_pc = "done"
           /\ CallbackReachesGuards
           /\ ~CallbackStateMismatch
           /\ CallbackHmacAcceptable
           /\ cb_exchange = 1
           /\ cb_token.kind = "http" /\ cb_token.ok
           /\ cb_resp.status = 302
           /\ cb_resp.location = "/"
           /\ \E i, j \in 1..Len(cb_resp.cookies) :
                 /\ cb_resp.cookies[i].name = "shopify_access_token"
                 /\ cb_resp.cookies[j].name = "shopify_shop"
                 /\ cb_resp.cookies[j].value = cb.query.shop
    /\ (cb_token.kind = "http" /\ ~cb_token.ok) =>
           /\ a_pc = "done"
           /\ cb_resp.status = 500
           /\ cb_resp.cookies = <<>>
    /\ (a_pc = "done" /\ cb_resp.status /= 302) =>
           /\ cb_resp.status \in {400, 403, 500}
           /\ cb_resp.cookies = <<>>

\* C5 witness: a callback has been answered with the credential cookies
\* and the redirect to "/", and the browser holds the access token.
CallbackAuthenticatedWitness ==
    /\ a_pc = "done"
    /\ cb_resp.status = 302
    /\ cb_token.ok
    /\ jar.shopify_access_token = "tok1"
    /\ jar.shopify_shop = "shop1"

\* C6: once a callback has been checked against the stored nonce and has
\* completed (AUTHENTICATED or REJECTED), the nonce cookie is cleared: a
\* nonce that passed the state check of a completed callback is no longer
\* in the browser's cookies unless a new authorization step issued it.
NonceClearedOnUse ==
    usedNonce /= Absent => jar.shopify_nonce /= usedNonce

InitAuth ==
    /\ envAccessToken = ""
    /\ envApiKey \in {"", "key"}
    /\ envApiSecret \in {"", "secret"}
    /\ WriterIdle
    /\ AuthIdle
    /\ ReaderIdle
    /\ UiMounted

NextAuth ==
    \/ \E nonce \in Nonces : AuthStart(nonce)
    \/ \E q \in CallbackQueries : CallbackReceive(q)
    \/ \E t \in TokenOutcomes : CallbackTokenSettles(t)

SpecAuth == InitAuth /\ [][NextAuth]_vars

\* ------------------------------------------------------------------------
\* Properties of the products handler
\* ------------------------------------------------------------------------

\* The handler has answered a GET request.
ReaderAnswered == r_pc = "done" /\ r_req.method = "GET"

\* Neither the request's cookies nor the environment hold an access token.
ReaderNoCredential ==
    ~Truthy(r_req.cookies.shopify_access_token) /\ ~Truthy(envAccessToken)

\* The query sent upstream for r_req failed: non-OK HTTP status, or a
\* top-level error list in the payload.
ReaderUpstreamFailed ==
    /\ r_upstream.kind = "http"
    /\ ~r_upstream.ok \/ (r_upstream.parses /\ r_upstream.hasErrors)

\* The query sent upstream for r_req was answered with product data.
ReaderUpstreamAnswered ==
    /\ r_upstream.kind = "http" /\ r_upstream.ok /\ r_upstream.parses
    /\ ~r_upstream.hasErrors /\ r_upstream.hasData

\* C11: outcomes of the read-inventory endpoint: a request with no
\* credential is answered 401 with needsAuth true; a request without
\* locationId is answered 400; an upstream failure (non-OK status or
\* top-level error list) is answered 500 with the first error's message;
\* otherwise the answer is 200 with the products list.
ReaderOutcomesAsSpecified ==
    ReaderAnswered =>
        /\ (Truthy(r_req.locationId) /\ ~r_req.repeated /\ ReaderNoCredential)
              => (r_resp.status = 401 /\ r_resp.needsAuth)
        /\ (~Truthy(r_req.locationId) /\ ~ReaderNoCredential)
              => r_resp.status = 400
        /\ (r_calls = 1 /\ ReaderUpstreamFailed)
              => /\ r_resp.status = 500
                 /\ (r_upstream.ok /\ r_upstream.errors /= <<>>
                        /\ r_upstream.errors[1] /= "")
                       => r_resp.error = r_upstream.errors[1]
        /\ (r_calls = 1 /\ ReaderUpstreamAnswered)
              => (r_resp.status = 200 /\ r_resp.hasProducts)

\* The handler answered r_req with a products list.
ReaderServed == r_pc = "done" /\ r_resp.status = 200 /\ r_resp.hasProducts

\* How many records of the output are for the variant.
RecordsFor(variant) ==
    Cardinality({k \in 1..Len(r_resp.products) :
                    r_resp.products[k].id = variant.id})

\* The variant has an inventory level at the queried location.
StockedAtQueried(variant) == LevelAt(variant, r_req.locationId).stocked

\* The ids of the variants the platform holds.
CatalogVariantIds ==
    UNION {{r_upstream.catalog[p].variants[v].id :
               v \in 1..Len(r_upstream.catalog[p].variants)} :
           p \in 1..Len(r_upstream.catalog)}

ProductIndex(rec) ==
    CHOOSE p \in 1..Len(r_upstream.catalog) :
        r_upstream.catalog[p].id = rec.productId

VariantIndex(rec) ==
    CHOOSE v \in 1..Len(r_upstream.catalog[ProductIndex(rec)].variants) :
        r_upstream.catalog[ProductIndex(rec)].variants[v].id = rec.id

\* The upstream response lists the variant of record a before that of b.
ListedBefore(a, b) ==
    \/ ProductIndex(a) < ProductIndex(b)
    \/ ProductIndex(a) = ProductIndex(b) /\ VariantIndex(a) < VariantIndex(b)

\* The sku the platform holds for the variant of a record (Absent: null).
UpstreamSku(rec) ==
    r_upstream.catalog[ProductIndex(rec)].variants[VariantIndex(rec)].sku

\* C14: the output list is sorted by sku: every adjacent pair a, b has
\* sku(a) <= sku(b) in locale order, records with equal sku keep the order
\* in which the upstream response listed them, and a record of a variant
\* without sku carries the "No SKU" sentinel and is ordered under it.
ReaderSortedStable ==
    ReaderServed =>
        /\ \A k \in 1..(Len(r_resp.products) - 1) :
              LET a == r_resp.products[k]
                  b == r_resp.products[k + 1]
              IN  /\ localeCompare(a.sku, b.sku) <= 0
                  /\ localeCompare(a.sku, b.sku) = 0 => ListedBefore(a, b)
        /\ \A k \in 1..Len(r_resp.products) :
              r_resp.products[k].sku =
                  IF UpstreamSku(r_resp.products[k]) \in {Absent, ""}
                  THEN "No SKU" ELSE UpstreamSku(r_resp.products[k])

\* The sort moved a record forward and kept two records of variants
\* without sku, under the sentinel, in their upstream order.
ReaderSortedWitness ==
    /\ ReaderServed
    /\ Len(r_resp.products) = 3
    /\ r_resp.products[1].id = "v3" /\ r_resp.products[1].sku = "A1"
    /\ r_resp.products[2].id = "v1" /\ r_resp.products[2].sku = "No SKU"
    /\ r_resp.products[3].id = "v2" /\ r_resp.products[3].sku = "No SKU"
    /\ UpstreamSku(r_resp.products[2]) = Absent

\* The inventory level the platform holds, at the queried location, for the
\* variant of a record.
UpstreamLevel(rec) ==
    LevelAt(r_upstream.catalog[ProductIndex(rec)].variants[VariantIndex(rec)],
            r_req.locationId)

SessionNonces == {"n1"}

SessionQueries ==
    {q \in CallbackQueries :
        /\ Complete(q) /\ q.timestamp /= Absent /\ q.order = LexOrder
        /\ q.state \in SessionNonces
        /\ q.hasHmac /\ q.hmac = HmacSha256("secret", PlatformMessage(q))}

\* The token endpoint fails or answers with a token.
SessionTokenOutcomes ==
    {t \in TokenOutcomes : t.kind = "throw" \/ t.access_token /= Absent}

\* The browser sends its cookies with every request to the app.
SessionRead(locationId) ==
    [method |-> "GET", locationId |-> locationId, repeated |-> FALSE,
     cookies |-> jar]

SessionWrite(body) == [method |-> "POST", cookies |-> jar, body |-> body]

SessionBodies ==
    {b \in Bodies : /\ b.kind = "list" /\ Len(b.updates) = 1
                    /\ b.updates[1].inventoryItemId = "A"}

SessionOutcomes ==
    {o \in Outcomes : o.kind = "throw" \/ (o.parses /\ o.data = NoData)}

SessionCatalog ==
    <<Product("p1", <<Variant("v1", "A1", "Default Title", Stocked5)>>)>>

SessionReaderOutcomes ==
    {[NoUpstream EXCEPT !.kind = "throw"],
     [NoUpstream EXCEPT !.kind = "http", !.ok = TRUE, !.status = 200,
                        !.parses = TRUE, !.hasData = TRUE,
                        !.catalog = SessionCatalog]}

InitSession ==
    /\ envAccessToken \in EnvTokens
    /\ envApiKey = "key"
    /\ envApiSecret = "secret"
    /\ WriterIdle
    /\ AuthIdle
    /\ ReaderIdle
    /\ UiMounted

NextSession ==
    \/ \E nonce \in SessionNonces : AuthStart(nonce)
    \/ \E q \in SessionQueries : CallbackReceive(q)
    \/ \E t \in SessionTokenOutcomes : CallbackTokenSettles(t)
    \/ ReaderReceive(SessionRead(BRISTOL))
    \/ \E o \in SessionReaderOutcomes : ReaderSettles(o)
    \/ \E b \in SessionBodies : WriterReceive(SessionWrite(b))
    \/ \E o \in SessionOutcomes : WriterFetchSettles(o)
    \/ WriterJsonSettles
    \/ WriterDelayElapses

SpecSession == InitSession /\ [][NextSession]_vars

\* The request carries an access-token cookie.  In a session the only
\* response that sets this cookie is the callback's redirect after a
\* successful token exchange (the handshake reached AUTHENTICATED).
ReaderCarriesHandshakeCookie == Truthy(r_req.cookies.shopify_access_token)

WriterCarriesHandshakeCookie == Truthy(w_req.cookies.shopify_access_token)

\* C12: the Reader and the Writer both take the access token from the
\* request cookies, falling back to the environment: a read or a write
\* that carries the cookies a completed handshake set is treated as
\* authenticated, also when the environment holds no access token (the
\* read is sent upstream, the write is not answered 401).
SessionCookiesAuthenticate ==
    /\ (ReaderAnswered /\ Truthy(r_req.locationId) /\ ~r_req.repeated
           /\ ReaderCarriesHandshakeCookie)
          => (r_calls = 1 /\ r_resp /= ReaderNoToken /\ r_resp.status /= 401)
    /\ (w_pc /= "idle" /\ w_req.method = "POST"
           /\ WriterCarriesHandshakeCookie)
          => w_resp.status /= 401

\* ------------------------------------------------------------------------
\* Outcomes of the update-inventory endpoint
\* ------------------------------------------------------------------------

\* The request body is empty or malformed: null, an object without
\* `updates`, `updates` not an array, or an empty array.
WriterBodyEmptyOrMalformed ==
    \/ w_req.body.kind \in {"null", "object", "scalar"}
    \/ w_req.body.kind = "list" /\ Len(w_req.body.updates) = 0

\* A call of the batch failed unexpectedly: the transport failed or the
\* answer was not JSON.
WriterUnexpectedFailure ==
    \E c \in 1..Len(w_outcomes) :
        \/ w_outcomes[c].kind = "throw"
        \/ w_outcomes[c].ok /\ ~w_outcomes[c].parses

\* C16: outcomes of the write-inventory endpoint: a non-POST method is
\* answered 405; no credential 401; an empty or malformed body 400; a batch
\* that was processed 200 with {success, failed, errors}, also when some or
\* all of its updates failed; 500 only on unexpected failure.
WriterOutcomesAsSpecified ==
    w_pc = "done" =>
        /\ w_req.method /= "POST" => w_resp.status = 405
        /\ (w_req.method = "POST" /\ ~WriterHasCredential)
              => w_resp.status = 401
        /\ (w_req.method = "POST" /\ WriterHasCredential
               /\ WriterBodyEmptyOrMalformed)
              => w_resp.status = 400
        /\ (w_req.method = "POST" /\ WriterHasCredential
               /\ ~WriterBodyEmptyOrMalformed /\ ~WriterUnexpectedFailure)
              => (w_resp.status = 200 /\ w_resp.kind = "results")
        /\ w_resp.status = 500 => WriterUnexpectedFailure

\* ------------------------------------------------------------------------
\* Properties of the stock counter page
\* ------------------------------------------------------------------------

\* A StockChange is emitted for the product.
Emitted(product) ==
    \E c \in 1..Len(changes) :
        changes[c].inventoryItemId = product.inventoryItemId

\* The baseline text of a product of the baseline.
BaselineText(id) ==
    ToStr(products[CHOOSE k \in 1..Len(products) : products[k].id = id]
              .currentStock)

\* C17: a StockChange is emitted for a baseline record exactly when its
\* edit exists, is non-empty and parses to an integer different from the
\* record's currentStock; so every emitted StockChange has newValue
\* different from oldValue.
DiffEmitsExactlyValueChanges ==
    /\ \A k \in 1..Len(products) :
          LET product == products[k]
          IN  Emitted(product) <=>
                 /\ product.id \in DOMAIN stockValues
                 /\ stockValues[product.id] /= <<>>
                 /\ ~parseInt(stockValues[product.id]).nan
                 /\ parseInt(stockValues[product.id]).n /= product.currentStock
    /\ \A c \in 1..Len(changes) :
          changes[c].newValue /= Num(changes[c].oldValue)

\* C18: after any sequence of edits, an item whose stored edit equals its
\* baseline currentStock rendered as a string has no StockChange: editing
\* a value away and back leaves the item out of the change set.
DiffIgnoresRestoredEdits ==
    \A k \in 1..Len(products) :
        (/\ products[k].id \in DOMAIN stockValues
         /\ stockValues[products[k].id] = ToStr(products[k].currentStock))
            => ~Emitted(products[k])

\* An item was edited away from its baseline and then back to it by
\* handleStockChange calls, and is not in the change set.
DiffRestoredWitness ==
    \E k \in 1..Len(products) :
        /\ products[k].id \in ui_dirtied
        /\ stockValues[products[k].id] = ToStr(products[k].currentStock)
        /\ ~Emitted(products[k])

\* The text holds a character that is not a decimal digit.
HasNonDigit(text) ==
    \E i \in 1..Len(text) :
        text[i] \notin {"0", "1", "2", "3", "4", "5", "6", "7", "8", "9"}

\* Every text of the edit map is empty or digits only, or is the baseline
\* text a fetch or a discard stored for its product.
EditBufferClean ==
    \A id \in DOMAIN stockValues :
        \/ ~HasNonDigit(stockValues[id])
        \/ /\ \E k \in 1..Len(products) : products[k].id = id
           /\ stockValues[id] = BaselineText(id)

\* A step that changes the edit map is not a handleStockChange call with
\* a non-digit character in its value.
NonDigitEditLeavesMap ==
    stockValues' /= stockValues =>
        \A id \in ProductIds :
            \A value \in {v \in EditTexts : HasNonDigit(v)} :
                ~HandleStockChange(id, value)

\* C19: a handleStockChange call whose value contains a non-digit
\* character leaves the edit map unchanged, so after any sequence of edit
\* events every value stored by an edit is empty or a digits-only string.
NonDigitEditsNeverStored ==
    /\ []EditBufferClean
    /\ [][NonDigitEditLeavesMap]_vars

\* A handleStockChange call with a non-digit value has just returned
\* without storing it, next to an edit that was stored.
NonDigitEditWitness ==
    /\ ui_event = "rejected"
    /\ ui_dirtied /= {}
    /\ EditBufferClean

\* handleSave submitted a batch and has just run to its end.
SaveCompleted ==
    ui_save = "idle" /\ ui_saveLog.writer \notin {"none", "pending"}

\* The edit map holds, for every product of the baseline, its currentStock
\* as a string and nothing else, and the change set is empty.
EditsCleared ==
    /\ DOMAIN stockValues = {products[k].id : k \in 1..Len(products)}
    /\ \A k \in 1..Len(products) :
          stockValues[products[k].id] = ToStr(products[k].currentStock)
    /\ Len(changes) = 0

\* C20 as stated: after every save attempt that submitted a batch, whether
\* the Writer reported success, partial failure or an error, the page has
\* re-fetched the inventory of the selected location and the pending edits
\* are cleared.
SaveAlwaysRefetchesAndClears ==
    SaveCompleted =>
        /\ ui_saveLog.refetch /= "none"
        /\ EditsCleared

\* The state of a completed save after an OK answer of the Writer.
SaveRefetchedAfterOk ==
    SaveCompleted =>
        /\ ui_saveLog.writer \in {"ok", "partial"} <=> ui_saveLog.refetch /= "none"
        /\ ui_saveLog.refetch = "ok" =>
              /\ ui_productsLoc = LocationIdOf(selectedLocation)
              /\ EditsCleared

\* The step that ends a save without a successful re-fetch leaves the
\* baseline and the edit map as they were.
SaveFailureKeepsEdits ==
    (saving /\ ~saving' /\ ui_saveLog'.refetch /= "ok")
        => (stockValues' = stockValues /\ products' = products)

\* C20 (amended): after a save attempt that submitted a batch the page has
\* re-fetched the inventory of the selected location exactly when the
\* Writer answered OK (success or partial failure); when that re-fetch
\* succeeded the pending edits are cleared (edit map reset to the fetched
\* baseline, change set empty); when the Writer reported an error, or the
\* re-fetch failed, the edit map and the baseline are left as they were.
SaveRefetchesAndClearsAfterOk ==
    /\ []SaveRefetchedAfterOk
    /\ [][SaveFailureKeepsEdits]_vars

\* A save with a partial failure has ended with a successful re-fetch that
\* replaced the baseline; the edits are cleared.
SaveRefetchWitness ==
    /\ SaveCompleted
    /\ ui_saveLog = [writer |-> "partial", refetch |-> "ok"]
    /\ Len(products) > 0
    /\ EditsCleared

\* The step is a handleDiscard call.
DiscardStep == ui_event' \in {"discard", "discarded"}

\* A handleDiscard call leaves the baseline as it was and sends nothing.
DiscardTouchesOnlyEdits ==
    DiscardStep =>
        /\ products' = products
        /\ ui_fetches' = ui_fetches
        /\ ui_save' = ui_save /\ ui_batch' = ui_batch
        /\ loading' = loading /\ saving' = saving
        /\ w_calls' = w_calls /\ r_calls' = r_calls

\* C21: immediately after handleDiscard, whatever the baseline and the
\* edits made before, every item's edit equals its baseline currentStock
\* as a string and the change set is empty; the baseline is unchanged and
\* no external call is made.
DiscardClearsEdits ==
    /\ [](ui_event \in {"discard", "discarded"} => EditsCleared)
    /\ [][DiscardTouchesOnlyEdits]_vars

\* handleDiscard has just cleared pending changes of a non-empty baseline.
DiscardWitness ==
    /\ ui_event = "discarded"
    /\ Len(products) > 0
    /\ EditsCleared

\* ------------------------------------------------------------------------
\* Every request is answered by its handler
\* ------------------------------------------------------------------------

\* C22: every request to a handler (authorization start, callback, read
\* inventory, write inventory) ends with one response in a documented
\* shape, sent by the handler: no exception raised while handling (null or
\* malformed body, failing or throwing outbound call, unparsable upstream
\* response) reaches the transport layer uncaught.
HandlersAlwaysAnswer ==
    /\ w_pc = "done" =>
          /\ w_resp.kind \in {"error", "results"}
          /\ w_resp.status \in {200, 400, 401, 405, 500}
    /\ a_pc = "done" => cb_resp.status \in {302, 400, 403, 500}
    /\ s_resp /= NoAuthResponse => s_resp.status \in {302, 500}
    /\ r_pc = "done" => r_resp.status \in {200, 400, 401, 405, 500}

\* ------------------------------------------------------------------------
\* What the page submits
\* ------------------------------------------------------------------------

\* The step is a handleSave call that submits a batch.
SubmitStep == ui_save = "idle" /\ ui_save' = "posting"

\* Every update submitted carries the id of the location the baseline on
\* the page was fetched for.
SubmitsBaselineLocation ==
    SubmitStep =>
        \A k \in 1..Len(ui_batch') : ui_batch'[k].locationId = ui_productsLoc

\* C23: in every reachable state of the page (also after a location switch
\* whose fetch is in flight, failed or returned needsAuth) every update
\* handleSave submits pairs an inventoryItemId with the locationId of the
\* location its baseline record was fetched from.
SubmittedLocationIsBaselineLocation == [][SubmitsBaselineLocation]_vars

\* The integer a digits-only text denotes: the sum of its digits weighted
\* by their place.
RECURSIVE PowerOfTen(_)
PowerOfTen(e) == IF e = 0 THEN 1 ELSE 10 * PowerOfTen(e - 1)

RECURSIVE PlaceSum(_, _)
PlaceSum(text, i) ==
    IF i > Len(text) THEN 0
    ELSE (CHOOSE d \in 0..9 : ToStr(d) = <<text[i]>>) * PowerOfTen(Len(text) - i)
            + PlaceSum(text, i + 1)

\* The text of the input of the product a StockChange was emitted for.
TextOf(change) ==
    stockValues[products[CHOOSE k \in 1..Len(products) :
        products[k].inventoryItemId = change.inventoryItemId].id]

MidSavePending ==
    {k \in 1..Len(products) :
        products[k].id \in ui_midSave /\ IsChanged(products[k], stockValues)}

\* The batch holds the update of the product's input.
InBatch(batch, product) ==
    \E j \in 1..Len(batch) :
        /\ batch[j].inventoryItemId = product.inventoryItemId
        /\ batch[j].quantity = parseInt(stockValues[product.id])

\* A step that starts a save right after the last one ended submits none
\* of the edits made while that one was in flight.
MidSaveEditsNotSubmitted ==
    (ui_save = "idle" /\ ui_save' = "posting") =>
        \A k \in 1..Len(products) :
            products[k].id \in ui_midSave =>
                \A j \in 1..Len(ui_batch') :
                    ui_batch'[j].inventoryItemId /= products[k].inventoryItemId

BatchFrozenInFlight ==
    (ui_save /= "idle" /\ ui_save' /= "idle") => ui_batch' = ui_batch

\* After a save that ended with a successful re-fetch nothing is left of
\* the edits made while it was in flight.
MidSaveOverwrittenByRefetch ==
    (SaveCompleted /\ ui_saveLog.refetch = "ok") =>
        (EditsCleared /\ MidSavePending = {})

\* The step that ends a save without a successful re-fetch keeps the edits
\* made while it was in flight, and the save started next submits them.
MidSaveKeptOtherwise ==
    /\ (saving /\ ~saving' /\ ui_saveLog'.refetch /= "ok")
          => (stockValues' = stockValues /\ ui_midSave' = ui_midSave)
    /\ (ui_save = "idle" /\ ui_save' = "posting")
          => \A k \in MidSavePending : InBatch(ui_batch', products[k])

SaveFetches == {i \in 1..Len(ui_fetches) : ui_fetches[i].forSave}

\* saving is true exactly while one handleSave is between its first await
\* and its end, and that handleSave waits for one response.
OneSaveInFlight ==
    /\ saving <=> ui_save /= "idle"
    /\ ui_save = "idle" => ui_batch = <<>>
    /\ ui_save = "posting" => (SaveFetches = {} /\ Len(ui_batch) > 0)
    /\ ui_save = "refetching" => Cardinality(SaveFetches) = 1

\* Whatever answer arrives for the response a handleSave waits for, the
\* handler takes it, and it ends with saving = false: after the POST when
\* the Writer answered an error or the request threw, after the re-fetch
\* otherwise.
SaveCanAlwaysEnd ==
    /\ ui_save = "posting" =>
          \A o \in SaveOutcomes :
              ENABLED (/\ SaveResponse(o)
                       /\ IF o.kind = "throw" \/ ~o.ok
                          THEN ~saving' /\ ui_save' = "idle"
                          ELSE ui_save' = "refetching")
    /\ ui_save = "refetching" =>
          \A i \in SaveFetches : \A o \in FetchOutcomes :
              ENABLED (FetchResponse(i, o) /\ ~saving' /\ ui_save' = "idle")

\* A batch is submitted only by a step taken while saving is false, and a
\* step that ends a handleSave sets saving to false.
SaveStartsIdleEndsReset ==
    /\ (ui_batch' /= ui_batch /\ ui_batch' /= <<>>)
          => (~saving /\ ui_save = "idle" /\ saving' /\ ui_save' = "posting")
    /\ (ui_save /= "idle" /\ ui_save' = "idle") => ~saving'

\* C26: at most one save batch of the page is in flight at any time:
\* handleSave can only be started while saving is false, and saving is
\* reset to false on every exit path of handleSave (success, Writer error
\* response, thrown exception), so no answer leaves the page in the saving
\* state.
AtMostOneSaveInFlight ==
    /\ [](OneSaveInFlight /\ SaveCanAlwaysEnd)
    /\ [][SaveStartsIdleEndsReset]_vars

\* A handleSave whose POST threw has ended and saving is false again.
OneSaveWitness ==
    /\ SaveCompleted
    /\ ui_saveLog.writer = "throw"
    /\ ~saving
    /\ Len(changes) > 0


\* ------------------------------------------------------------------------
\* The search filter and the change set
\* ------------------------------------------------------------------------

\* The product is not among the products the search shows.
Hidden(product) ==
    \A k \in 1..Len(filteredProducts) : filteredProducts[k].id /= product.id

\* A step that changes searchQuery leaves the baseline, the edit map and
\* the StockChange list as they were.
SearchLeavesChanges ==
    searchQuery' /= searchQuery =>
        /\ products' = products
        /\ stockValues' = stockValues
        /\ Changes(products', stockValues') = changes

\* Every changed product of the baseline is counted, shown or hidden.
HiddenEditsCounted ==
    /\ \A k \in 1..Len(products) :
          IsChanged(products[k], stockValues) => Emitted(products[k])
    /\ Len(changes) =
          Cardinality({k \in 1..Len(products) :
                          IsChanged(products[k], stockValues)})

\* A step that starts a save submits every changed product of the
\* baseline, shown or hidden.
HiddenEditsSubmitted ==
    (ui_save = "idle" /\ ui_save' = "posting") =>
        /\ Len(ui_batch') = Len(changes)
        /\ \A k \in 1..Len(products) :
              IsChanged(products[k], stockValues)
                  => InBatch(ui_batch', products[k])

\* C27: the change set is independent of the search filter: changing
\* searchQuery leaves products, the edit map and the computed StockChange
\* list unchanged, so an edited item that the current search hides is
\* still counted in the save bar and still submitted by handleSave.
ChangesIndependentOfSearch ==
    /\ []HiddenEditsCounted
    /\ [][SearchLeavesChanges]_vars
    /\ [][HiddenEditsSubmitted]_vars

\* A batch is being posted that holds the update of a product the search
\* hides.
HiddenEditWitness ==
    /\ ui_save = "posting"
    /\ ~TrimsToEmpty(searchQuery)
    /\ \E k \in 1..Len(products) :
          /\ Hidden(products[k])
          /\ InBatch(ui_batch, products[k])

====
